---- MODULE Spec2Model ----
(***************************************************************************)
(* A model of src/MedFill.py: the quasi-JSON recoverer (extract_json), the *)
(* strict parse that follows it (json.loads), the page isolator            *)
(* (make_page_part), the field inventory (extract_fields_with_positions)   *)
(* and the button-triggered workflow that extracts patient info, walks the *)
(* pages of the form, and fills the form.                                  *)
(*                                                                         *)
(* Texts are sequences of one-character strings.  Positions inside the     *)
(* operators that model Python string methods are Python's (0-based, -1    *)
(* for "not found"); positions of the scanners are TLA+ sequence indices.  *)
(***************************************************************************)
EXTENDS Integers, Sequences, FiniteSets, TLC

----------------------------------------------------------------------------
(* Characters *)

QUOTE == "\""
BACKSLASH == "\\"
NEWLINE == "\n"

\* Python's \s, restricted to ASCII
SpaceChars == {" ", "\t", "\n", "\r", "\f"}

Digits == {"0", "1", "2", "3", "4", "5", "6", "7", "8", "9"}

Letters ==
    {"a", "b", "c", "d", "e", "f", "g", "h", "i", "j", "k", "l", "m",
     "n", "o", "p", "q", "r", "s", "t", "u", "v", "w", "x", "y", "z",
     "A", "B", "C", "D", "E", "F", "G", "H", "I", "J", "K", "L", "M",
     "N", "O", "P", "Q", "R", "S", "T", "U", "V", "W", "X", "Y", "Z"}

\* the class [A-Za-z0-9_] of the key-quoting pattern
WordChars == Letters \cup Digits \cup {"_"}

IsSpace(c) == c \in SpaceChars

IsWord(c) == c \in WordChars

----------------------------------------------------------------------------
(* str.find, str.rfind and slicing *)

\* text.find(c): the 0-based index of the first c, -1 when there is none
Find(text, c) ==
    IF \E i \in 1..Len(text) : text[i] = c
    THEN (CHOOSE i \in 1..Len(text) :
              /\ text[i] = c
              /\ \A j \in 1..(i - 1) : text[j] # c) - 1
    ELSE -1

\* text.rfind(c): the 0-based index of the last c, -1 when there is none
RFind(text, c) ==
    IF \E i \in 1..Len(text) : text[i] = c
    THEN (CHOOSE i \in 1..Len(text) :
              /\ text[i] = c
              /\ \A j \in (i + 1)..Len(text) : text[j] # c) - 1
    ELSE -1

\* text[a:b] for 0 <= a and 0 <= b: empty when a >= b
Slice(text, a, b) ==
    LET hi == IF b > Len(text) THEN Len(text) ELSE b
    IN  SubSeq(text, a + 1, hi)

----------------------------------------------------------------------------
(* re.sub(r'(?m)^\s*([A-Za-z0-9_]+)\s*:', r'"\1":', raw) *)

RECURSIVE SkipSpace(_, _)
\* the index after the longest run of \s starting at index i
SkipSpace(s, i) ==
    IF i <= Len(s) /\ IsSpace(s[i]) THEN SkipSpace(s, i + 1) ELSE i

RECURSIVE SkipWord(_, _)
\* the index after the longest run of [A-Za-z0-9_] starting at index i
SkipWord(s, i) ==
    IF i <= Len(s) /\ IsWord(s[i]) THEN SkipWord(s, i + 1) ELSE i

\* (?m)^ : the start of the text or just after a newline
AtLineStart(s, i) == i = 1 \/ s[i - 1] = NEWLINE

\* The match of ^\s*([A-Za-z0-9_]+)\s*: that starts at index i, as
\* [hit, from, to, next]: the key is s[from..to], the match ends before next.
\* The three classes and ":" are pairwise disjoint, so the greedy match is
\* the only candidate.
KeyMatch(s, i) ==
    LET a == SkipSpace(s, i)
        b == SkipWord(s, a)
        c == SkipSpace(s, b)
    IN  [hit  |-> AtLineStart(s, i) /\ b > a /\ c <= Len(s) /\ s[c] = ":",
         from |-> a, to |-> b - 1, next |-> c + 1]

RECURSIVE QuoteKeysFrom(_, _)
\* re.sub scans left to right; matches do not overlap
QuoteKeysFrom(s, i) ==
    IF i > Len(s) THEN <<>>
    ELSE LET m == KeyMatch(s, i)
         IN  IF m.hit
             THEN <<QUOTE>> \o SubSeq(s, m.from, m.to) \o <<QUOTE, ":">>
                      \o QuoteKeysFrom(s, m.next)
             ELSE <<s[i]>> \o QuoteKeysFrom(s, i + 1)

QuoteKeys(raw) == QuoteKeysFrom(raw, 1)

----------------------------------------------------------------------------
(* re.sub(r',\s*([}\]])', r'\1', raw) *)

\* The match of ,\s*([}\]]) that starts at index i, as [hit, close, next]
CommaMatch(s, i) ==
    LET c == SkipSpace(s, i + 1)
    IN  [hit   |-> s[i] = "," /\ c <= Len(s) /\ s[c] \in {"}", "]"},
         close |-> c, next |-> c + 1]

RECURSIVE DropTrailingCommasFrom(_, _)
DropTrailingCommasFrom(s, i) ==
    IF i > Len(s) THEN <<>>
    ELSE LET m == CommaMatch(s, i)
         IN  IF m.hit
             THEN <<s[m.close]>> \o DropTrailingCommasFrom(s, m.next)
             ELSE <<s[i]>> \o DropTrailingCommasFrom(s, i + 1)

DropTrailingCommas(raw) == DropTrailingCommasFrom(raw, 1)

----------------------------------------------------------------------------
(* extract_json *)

\* The result of a call that may raise: [ok |-> TRUE, val |-> v] or
\* [ok |-> FALSE, val |-> the exception's name]
Return(v) == [ok |-> TRUE, val |-> v]
Raise(e) == [ok |-> FALSE, val |-> e]

\* extract_json with the slice text[start:end], short of the last "}"
extract_json_exclusive_end(text) ==
    LET start == Find(text, "{")
        end   == RFind(text, "}")
    IN  IF start = -1 \/ end = -1
        THEN Raise("ValueError")
        ELSE Return(DropTrailingCommas(QuoteKeys(Slice(text, start, end))))

\* extract_json with the test for a missing "}" left out
extract_json_start_only(text) ==
    LET start == Find(text, "{")
        end   == RFind(text, "}")
    IN  IF start = -1
        THEN Raise("ValueError")
        ELSE Return(DropTrailingCommas(QuoteKeys(Slice(text, start, end + 1))))

extract_json(text) ==
    LET start == Find(text, "{")
        end   == RFind(text, "}")
    IN  IF start = -1 \/ end = -1
        THEN Raise("ValueError")
        ELSE Return(DropTrailingCommas(QuoteKeys(Slice(text, start, end + 1))))

----------------------------------------------------------------------------
(* json.loads: the strict parser applied to extract_json's result.         *)
(* Values: a string is <<"str", characters>>, a number <<"num", lexeme>>,  *)
(* true, false and null are <<"true">>, <<"false">>, <<"null">>, an object *)
(* is <<"obj", function from keys to values>> (a repeated key keeps its    *)
(* last value, as a dict does), an array is <<"arr", sequence of values>>. *)

JStr(cs) == <<"str", cs>>
JNum(lexeme) == <<"num", lexeme>>
JTrue == <<"true">>
JFalse == <<"false">>
JNull == <<"null">>
JObj(f) == <<"obj", f>>
JArr(vs) == <<"arr", vs>>

\* a scan that stopped before index pos with value val, or that failed
Scanned(v, p) == [ok |-> TRUE, val |-> v, pos |-> p]
ScanFail == [ok |-> FALSE, val |-> <<>>, pos |-> 0]

\* json's WHITESPACE
JsonSpace == {" ", "\t", "\n", "\r"}

RECURSIVE SkipJsonSpace(_, _)
SkipJsonSpace(s, i) ==
    IF i <= Len(s) /\ s[i] \in JsonSpace THEN SkipJsonSpace(s, i + 1) ELSE i

\* whether s holds the characters of word from index i on
StartsWith(s, i, word) ==
    /\ i + Len(word) - 1 <= Len(s)
    /\ \A k \in 1..Len(word) : s[i + k - 1] = word[k]

\* characters a strict string may not hold unescaped
ControlChars == {"\t", "\n", "\r", "\f"}

\* the one-character escapes; \b and \uXXXX are kept under their own names
EscapeOf(c) ==
    CASE c = QUOTE -> QUOTE
      [] c = BACKSLASH -> BACKSLASH
      [] c = "/" -> "/"
      [] c = "n" -> "\n"
      [] c = "r" -> "\r"
      [] c = "t" -> "\t"
      [] c = "f" -> "\f"
      [] c = "b" -> "\\b"

HexChars == Digits \cup {"a", "b", "c", "d", "e", "f", "A", "B", "C", "D", "E", "F"}

RECURSIVE ScanString(_, _, _)
\* py_scanstring: s[i] is the character after the opening quote
ScanString(s, i, acc) ==
    IF i > Len(s) THEN ScanFail
    ELSE IF s[i] = QUOTE THEN Scanned(acc, i + 1)
    ELSE IF s[i] \in ControlChars THEN ScanFail
    ELSE IF s[i] # BACKSLASH THEN ScanString(s, i + 1, Append(acc, s[i]))
    ELSE IF i + 1 > Len(s) THEN ScanFail
    ELSE IF s[i + 1] \in {QUOTE, BACKSLASH, "/", "n", "r", "t", "f", "b"}
         THEN ScanString(s, i + 2, Append(acc, EscapeOf(s[i + 1])))
    ELSE IF /\ s[i + 1] = "u"
            /\ i + 5 <= Len(s)
            /\ \A k \in 2..5 : s[i + k] \in HexChars
         THEN ScanString(s, i + 6,
                  Append(acc, "\\u" \o s[i + 2] \o s[i + 3] \o s[i + 4] \o s[i + 5]))
    ELSE ScanFail

RECURSIVE SkipDigits(_, _)
SkipDigits(s, i) ==
    IF i <= Len(s) /\ s[i] \in Digits THEN SkipDigits(s, i + 1) ELSE i

\* NUMBER_RE = (-?(?:0|[1-9]\d*))(\.\d+)?([eE][-+]?\d+)? matched at index i:
\* the index after the match, 0 when there is none
NumberEnd(s, i) ==
    LET a == IF i <= Len(s) /\ s[i] = "-" THEN i + 1 ELSE i
        b == IF a <= Len(s) /\ s[a] = "0" THEN a + 1 ELSE SkipDigits(s, a)
        f == IF b <= Len(s) /\ s[b] = "." /\ SkipDigits(s, b + 1) > b + 1
             THEN SkipDigits(s, b + 1) ELSE b
        g == IF f <= Len(s) /\ s[f] \in {"e", "E"}
             THEN (IF f + 1 <= Len(s) /\ s[f + 1] \in {"+", "-"} THEN f + 2 ELSE f + 1)
             ELSE f
        e == IF g > f /\ SkipDigits(s, g) > g THEN SkipDigits(s, g) ELSE f
    IN  IF b > a THEN e ELSE 0

\* dict semantics: a later pair replaces an earlier one with the same key
Put(f, k, v) == [x \in DOMAIN f \cup {k} |-> IF x = k THEN v ELSE f[x]]

EmptyMap == [x \in {} |-> <<>>]

RECURSIVE ScanOnce(_, _)
RECURSIVE ScanObject(_, _, _)
RECURSIVE ScanArray(_, _, _)

\* JSONObject's loop: i is where a property name's opening quote must be
ScanObject(s, i, acc) ==
    IF ~(i <= Len(s) /\ s[i] = QUOTE) THEN ScanFail
    ELSE LET key == ScanString(s, i + 1, <<>>)
         IN  IF ~key.ok THEN ScanFail
             ELSE LET c == SkipJsonSpace(s, key.pos)
                  IN  IF ~(c <= Len(s) /\ s[c] = ":") THEN ScanFail
                      ELSE LET v == ScanOnce(s, SkipJsonSpace(s, c + 1))
                           IN  IF ~v.ok THEN ScanFail
                               ELSE LET d   == SkipJsonSpace(s, v.pos)
                                        now == Put(acc, key.val, v.val)
                                    IN  IF d > Len(s) THEN ScanFail
                                        ELSE IF s[d] = "}" THEN Scanned(JObj(now), d + 1)
                                        ELSE IF s[d] # "," THEN ScanFail
                                        ELSE ScanObject(s, SkipJsonSpace(s, d + 1), now)

\* JSONArray's loop: i is where the next element must start
ScanArray(s, i, acc) ==
    LET v == ScanOnce(s, i)
    IN  IF ~v.ok THEN ScanFail
        ELSE LET d   == SkipJsonSpace(s, v.pos)
                 now == Append(acc, v.val)
             IN  IF d > Len(s) THEN ScanFail
                 ELSE IF s[d] = "]" THEN Scanned(JArr(now), d + 1)
                 ELSE IF s[d] # "," THEN ScanFail
                 ELSE ScanArray(s, SkipJsonSpace(s, d + 1), now)

\* json.scanner's _scan_once at index i
ScanOnce(s, i) ==
    IF i > Len(s) THEN ScanFail
    ELSE IF s[i] = QUOTE THEN
        LET r == ScanString(s, i + 1, <<>>)
        IN  IF r.ok THEN Scanned(JStr(r.val), r.pos) ELSE ScanFail
    ELSE IF s[i] = "{" THEN
        LET a == SkipJsonSpace(s, i + 1)
        IN  IF a <= Len(s) /\ s[a] = "}" THEN Scanned(JObj(EmptyMap), a + 1)
            ELSE ScanObject(s, a, EmptyMap)
    ELSE IF s[i] = "[" THEN
        LET a == SkipJsonSpace(s, i + 1)
        IN  IF a <= Len(s) /\ s[a] = "]" THEN Scanned(JArr(<<>>), a + 1)
            ELSE ScanArray(s, a, <<>>)
    ELSE IF StartsWith(s, i, <<"n", "u", "l", "l">>) THEN Scanned(JNull, i + 4)
    ELSE IF StartsWith(s, i, <<"t", "r", "u", "e">>) THEN Scanned(JTrue, i + 4)
    ELSE IF StartsWith(s, i, <<"f", "a", "l", "s", "e">>) THEN Scanned(JFalse, i + 5)
    ELSE IF NumberEnd(s, i) # 0
         THEN Scanned(JNum(SubSeq(s, i, NumberEnd(s, i) - 1)), NumberEnd(s, i))
    ELSE IF StartsWith(s, i, <<"N", "a", "N">>)
         THEN Scanned(JNum(<<"N", "a", "N">>), i + 3)
    ELSE IF StartsWith(s, i, <<"I", "n", "f", "i", "n", "i", "t", "y">>)
         THEN Scanned(JNum(SubSeq(s, i, i + 7)), i + 8)
    ELSE IF StartsWith(s, i, <<"-", "I", "n", "f", "i", "n", "i", "t", "y">>)
         THEN Scanned(JNum(SubSeq(s, i, i + 8)), i + 9)
    ELSE ScanFail

\* json.loads(s): one value, white space around it, nothing else
json_loads(s) ==
    LET r == ScanOnce(s, SkipJsonSpace(s, 1))
    IN  IF r.ok /\ SkipJsonSpace(s, r.pos) = Len(s) + 1
        THEN Return(r.val)
        ELSE Raise("JSONDecodeError")

----------------------------------------------------------------------------
(* Python's bool(val) and str(val) on a parsed value *)

\* the digits of a number's lexeme are all 0 (0, -0, 0.0, 0e5): the value is zero
IsZeroLexeme(lexeme) ==
    /\ \A k \in 1..Len(lexeme) : lexeme[k] \in {"0", "-", ".", "+", "e", "E"}
    /\ \E k \in 1..Len(lexeme) : lexeme[k] = "0"

\* truthiness that reads the strings "false" and "" as false
TruthyReadingStrings(val) ==
    CASE val[1] = "str"   -> val[2] \notin {<<>>, <<"f", "a", "l", "s", "e">>}
      [] val[1] = "num"   -> ~IsZeroLexeme(val[2])
      [] val[1] = "true"  -> TRUE
      [] val[1] = "false" -> FALSE
      [] val[1] = "null"  -> FALSE
      [] val[1] = "obj"   -> DOMAIN val[2] # {}
      [] val[1] = "arr"   -> val[2] # <<>>

\* bool(val): empty strings and containers, zero, False and None are falsy
Truthy(val) ==
    CASE val[1] = "str"   -> val[2] # <<>>
      [] val[1] = "num"   -> ~IsZeroLexeme(val[2])
      [] val[1] = "true"  -> TRUE
      [] val[1] = "false" -> FALSE
      [] val[1] = "null"  -> FALSE
      [] val[1] = "obj"   -> DOMAIN val[2] # {}
      [] val[1] = "arr"   -> val[2] # <<>>

\* str(val) for the scalars; an integer prints as its lexeme, but for -0
Str(val) ==
    CASE val[1] = "str"   -> val[2]
      [] val[1] = "true"  -> <<"T", "r", "u", "e">>
      [] val[1] = "false" -> <<"F", "a", "l", "s", "e">>
      [] val[1] = "null"  -> <<"N", "o", "n", "e">>
      [] val[1] = "num" /\ \A k \in 1..Len(val[2]) : val[2][k] \in Digits \cup {"-"}
                          -> IF val[2] = <<"-", "0">> THEN <<"0">> ELSE val[2]

----------------------------------------------------------------------------
(* The form: a sequence of pages, each the sequence of its widgets          *)
(* [name, type, value] in the page's widget order.  A widget's rectangle   *)
(* is carried through the code unread and is left out.                     *)

T1 == <<"T", "1">>
CB1 == <<"C", "B", "1">>

Yes == <<"Y", "e", "s">>
Off == <<"O", "f", "f">>

Old == <<"o", "l", "d">>

TextWidget(n, v) == [name |-> n, type |-> "text", value |-> v]
CheckWidget(n, v) == [name |-> n, type |-> "checkbox", value |-> v]

\* the widget lists a page of the form may hold: blank or already filled, a
\* field name may sit on widgets of several pages, and a page may hold no
\* widget at all
PageLayouts ==
    {<<>>, <<TextWidget(T1, <<>>)>>, <<CheckWidget(CB1, Off)>>,
     <<TextWidget(T1, Old), CheckWidget(CB1, Yes)>>}

\* the largest number of pages of a form
MaxPages == 2

SeqsUpTo(S, n) == UNION {[1..k -> S] : k \in 0..n}

Forms == SeqsUpTo(PageLayouts, MaxPages) \ {<<>>}

----------------------------------------------------------------------------
(* The oracle (client.models.generate_content(...).text): a call raises or  *)
(* returns a text.  The texts below are the answers the model lets it give. *)

Q(cs) == <<QUOTE>> \o cs \o <<QUOTE>>
Member(k, v) == Q(k) \o <<":", " ">> \o v
Obj1(m) == <<"{">> \o m \o <<"}">>
Obj2(m, n) == <<"{">> \o m \o <<",", " ">> \o n \o <<"}">>

Jane == <<"J", "a", "n", "e">>
Sorry == <<"s", "o", "r", "r", "y">>
Question == <<"q", "u", "e", "s", "t", "i", "o", "n">>
LitTrue == <<"t", "r", "u", "e">>
LitFalse == <<"f", "a", "l", "s", "e">>
LitNull == <<"n", "u", "l", "l">>

\* {"patient_info": {"First_Name": "Jane", "Smoker": true}}
InfoJane ==
    Obj1(Member(<<"p", "a", "t", "i", "e", "n", "t", "_", "i", "n", "f", "o">>,
                Obj2(Member(<<"F", "i", "r", "s", "t", "_", "N", "a", "m", "e">>, Q(Jane)),
                     Member(<<"S", "m", "o", "k", "e", "r">>, LitTrue))))

\* answers to the patient-info prompt: the object, the object in prose with a
\* trailing comma, no object at all, and an object that no repair makes valid
InfoResponses ==
    {InfoJane,
     <<"O", "K", ":", " ">> \o Obj1(Member(<<"a">>, <<"1">>) \o <<",">>) \o <<".">>,
     Sorry,
     Obj1(Member(<<"a">>, <<>>))}

Annotation(q) == Obj1(Member(Question, Q(q)))

\* answers to a page's context prompt: both fields annotated, T1 alone
\* annotated, no object at all, and an object with a bare key that is not at
\* a line start (which the repair leaves bare)
CtxResponses ==
    {Obj2(Member(T1, Annotation(<<"a">>)), Member(CB1, Annotation(<<"b">>))),
     Obj1(Member(T1, Annotation(<<"a">>))),
     Sorry,
     Obj1(T1 \o <<":", " ">> \o Annotation(<<"a">>))}

\* answers to a page's mapping prompt: typed values for one or both fields,
\* values of the wrong type, no object at all, and a bare key the repair
\* leaves bare
MapResponses ==
    {Obj1(Member(T1, Q(Jane))),
     Obj1(Member(CB1, LitTrue)),
     Obj2(Member(T1, Q(Old)), Member(CB1, LitFalse)),
     Obj2(Member(T1, LitNull), Member(CB1, Q(LitFalse))),
     Sorry,
     Obj1(T1 \o <<":", " ">> \o Q(Jane))}

\* what one oracle call may do
OracleOutcomes(texts) == {Raise("APIError")} \cup {Return(t) : t \in texts}

\* json.loads(extract_json(response)): the first exception raised on the way
\* is the result
DecodeText(response) ==
    LET r == extract_json(response)
    IN  IF ~r.ok THEN r ELSE json_loads(r.val)

\* DecodeText on every answer of the oracle, computed once
Decoded ==
    [t \in InfoResponses \cup CtxResponses \cup MapResponses |-> DecodeText(t)]

\* the decoding of the outcome of an oracle call: the call's own exception,
\* or what decoding its text gives
Decode(resp) == IF ~resp.ok THEN resp ELSE Decoded[resp.val]

----------------------------------------------------------------------------
(* State *)

VARIABLES
    pc,                     \* where the script is
    pa_file, ref_file,      \* the uploads: "none", "pdf" or "garbage"
    form,                   \* the pages of the PA form (pa_bytes, when a PDF)
    patient_info,           \* the parsed patient info, <<>> before step 1
    fields,                 \* extract_fields_with_positions' list
    fields_by_page,         \* page number -> that page's [id, type] entries
    todo,                   \* the page numbers the loop has still to take
    page_no,                \* the loop's current page, 0 outside the loop
    page_part,              \* make_page_part's result: "copy", "image", "none"
    field_context_by_page,  \* page number -> parsed context answer
    field_mapping,          \* field id -> value
    doc,                    \* the document under filling, <<>> before step 4
    written,                \* the <<page, index>> of the widgets the filler set
    out_buf,                \* the saved document offered for download
    error,                  \* "" or where the run ended early
    failed,                 \* the <<page, step>> whose decoding raised
    calls,                  \* the oracle calls made, oldest first
    transcript,             \* what each call sent and how it ended
    input, embedded,        \* the recoverer's input; the object built into it
    recovered, loaded,      \* extract_json's and json.loads' results
    rpc                     \* where the recoverer run is

workflow == <<pc, pa_file, ref_file, form, patient_info, fields, fields_by_page,
              todo, page_no, page_part, field_context_by_page, field_mapping,
              doc, written, out_buf, error, failed, calls, transcript>>

recoverer == <<input, embedded, recovered, loaded, rpc>>

vars == <<workflow, recoverer>>

Uploads == {"none", "pdf", "garbage"}

\* a value that stands for "nothing yet"
None == <<>>

WorkflowIdle ==
    /\ pc = "idle"
    /\ patient_info = None
    /\ fields = <<>>
    /\ fields_by_page = EmptyMap
    /\ todo = <<>>
    /\ page_no = 0
    /\ page_part = "none"
    /\ field_context_by_page = EmptyMap
    /\ field_mapping = EmptyMap
    /\ doc = None
    /\ written = {}
    /\ out_buf = None
    /\ error = ""
    /\ failed = {}
    /\ calls = <<>>
    /\ transcript = <<>>

RecovererIdle ==
    /\ input = <<>>
    /\ embedded = <<>>
    /\ recovered = None
    /\ loaded = None
    /\ rpc = "off"

\* the uploads as the button finds them: a form has pages only when it is a PDF
Init ==
    /\ WorkflowIdle
    /\ RecovererIdle
    /\ pa_file \in Uploads
    /\ ref_file \in Uploads
    /\ form \in IF pa_file = "pdf" THEN Forms ELSE {<<>>}

----------------------------------------------------------------------------
(* extract_fields_with_positions and the grouping by page *)

RECURSIVE PageFields(_, _, _)
\* the entries of the widgets of one page, in widget order
PageFields(widgets, page_num, k) ==
    IF k > Len(widgets) THEN <<>>
    ELSE <<[name  |-> widgets[k].name,
            type  |-> widgets[k].type,
            value |-> widgets[k].value,
            page  |-> page_num]>> \o PageFields(widgets, page_num, k + 1)

RECURSIVE FieldsFrom(_, _)
\* enumerate(doc, start=1): pages in document order
FieldsFrom(pages, page_num) ==
    IF page_num > Len(pages) THEN <<>>
    ELSE PageFields(pages[page_num], page_num, 1) \o FieldsFrom(pages, page_num + 1)

\* the inventory with every entry tagged with the first page
extract_fields_first_page(pages) ==
    [i \in 1..Len(FieldsFrom(pages, 1)) |-> [FieldsFrom(pages, 1)[i] EXCEPT !.page = 1]]

extract_fields_with_positions(pages) == FieldsFrom(pages, 1)

RECURSIVE GroupByPage(_, _, _)
\* fields_by_page.setdefault(f["page"], []).append({id, type, rect})
GroupByPage(fs, k, acc) ==
    IF k > Len(fs) THEN acc
    ELSE LET p     == fs[k].page
             entry == [id |-> fs[k].name, type |-> fs[k].type]
             sofar == IF p \in DOMAIN acc THEN acc[p] ELSE <<>>
         IN  GroupByPage(fs, k + 1, Put(acc, p, Append(sofar, entry)))

RECURSIVE SortedDescending(_)
\* sorted(keys, reverse=True)
SortedDescending(S) ==
    IF S = {} THEN <<>>
    ELSE LET m == CHOOSE x \in S : \A y \in S : y <= x
         IN  <<m>> \o SortedDescending(S \ {m})

RECURSIVE Sorted(_)
\* sorted(keys): ascending
Sorted(S) ==
    IF S = {} THEN <<>>
    ELSE LET m == CHOOSE x \in S : \A y \in S : x <= y
         IN  <<m>> \o Sorted(S \ {m})

\* the merge as an assignment: field_mapping = mapping
UpdateAssign(f, g) == g

\* the merge keeping the entries already present: setdefault for every key
UpdateKeepFirst(f, g) ==
    [x \in DOMAIN f \cup DOMAIN g |-> IF x \in DOMAIN f THEN f[x] ELSE g[x]]

\* dict.update: the entries of the argument replace those already present
Update(f, g) == [x \in DOMAIN f \cup DOMAIN g |-> IF x \in DOMAIN g THEN g[x] ELSE f[x]]

----------------------------------------------------------------------------
(* The workflow behind the "Process and Fill" button *)

Call(kind, page) == [kind |-> kind, page |-> page]

\* what one call sent to the oracle and how the call ended
Exchange(prompt, outcome) == [prompt |-> prompt, outcome |-> outcome]

\* lines 59-67: the contents of the patient-info call, both uploads' bytes
\* before the fixed REFERRAL_PROMPT
InfoContents == [ref |-> ref_file, pa |-> pa_file]

\* lines 157-185: the context prompt names the page and lists its fields
prompt_ctx == [page |-> page_no, fields |-> fields_by_page[page_no]]

\* lines 195-223: the mapping prompt names the page and carries the patient
\* info and the page's context
prompt_map ==
    [page |-> page_no, patient_info |-> patient_info,
     context |-> field_context_by_page[page_no]]

\* lines 124-131: the button is pressed; a missing upload is reported and the
\* script stops
Click ==
    /\ pc = "idle"
    /\ IF pa_file = "none" \/ ref_file = "none"
       THEN pc' = "stopped" /\ error' = "missing_upload"
       ELSE pc' = "patient_info" /\ error' = error
    /\ UNCHANGED <<pa_file, ref_file, form, patient_info, fields, fields_by_page,
                   todo, page_no, page_part, field_context_by_page,
                   field_mapping, doc, written, out_buf, failed, calls, transcript>>
    /\ UNCHANGED recoverer

\* the patient-info step with st.stop() left out of its handler
ExtractPatientInfoNoStop ==
    /\ pc = "patient_info"
    /\ \E resp \in OracleOutcomes(InfoResponses) :
         /\ transcript' = Append(transcript, Exchange(InfoContents, resp))
         /\ LET r == Decode(resp)
           IN  IF r.ok
               THEN patient_info' = r.val /\ error' = error
               ELSE patient_info' = patient_info /\ error' = "patient_info"
    /\ pc' = "fields"
    /\ calls' = Append(calls, Call("info", 0))
    /\ UNCHANGED <<pa_file, ref_file, form, fields, fields_by_page, todo, page_no,
                   page_part, field_context_by_page, field_mapping, doc, written,
                   out_buf, failed>>
    /\ UNCHANGED recoverer

\* lines 133-138 with extract_patient_info (55-71): one oracle call on the raw
\* bytes of both uploads, decoded; any exception is reported and the script
\* stops
ExtractPatientInfo ==
    /\ pc = "patient_info"
    /\ \E resp \in OracleOutcomes(InfoResponses) :
         /\ transcript' = Append(transcript, Exchange(InfoContents, resp))
         /\ LET r == Decode(resp)
           IN  IF r.ok
               THEN patient_info' = r.val /\ pc' = "fields" /\ error' = error
               ELSE patient_info' = patient_info /\ pc' = "stopped"
                        /\ error' = "patient_info"
    /\ calls' = Append(calls, Call("info", 0))
    /\ UNCHANGED <<pa_file, ref_file, form, fields, fields_by_page, todo, page_no,
                   page_part, field_context_by_page, field_mapping, doc, written,
                   out_buf, failed>>
    /\ UNCHANGED recoverer

\* the inventory step with fields_by_page holding every page of the form, the
\* pages without widgets with an empty list
ExtractFieldsEveryPage ==
    /\ pc = "fields"
    /\ IF pa_file # "pdf"
       THEN /\ pc' = "crashed"
            /\ error' = "fitz.open"
            /\ UNCHANGED <<fields, fields_by_page, todo>>
       ELSE LET fs == extract_fields_with_positions(form)
                by == GroupByPage(fs, 1, [p \in 1..Len(form) |-> <<>>])
            IN  /\ fields' = fs
                /\ fields_by_page' = by
                /\ todo' = Sorted(DOMAIN by)
                /\ pc' = "loop"
                /\ error' = error
    /\ UNCHANGED <<pa_file, ref_file, form, patient_info, page_no, page_part,
                   field_context_by_page, field_mapping, doc, written, out_buf,
                   failed, calls, transcript>>
    /\ UNCHANGED recoverer

\* lines 140-148: fitz.open raises on bytes that are no PDF, and nothing
\* catches it; otherwise the inventory is taken and grouped by page
ExtractFields ==
    /\ pc = "fields"
    /\ IF pa_file # "pdf"
       THEN /\ pc' = "crashed"
            /\ error' = "fitz.open"
            /\ UNCHANGED <<fields, fields_by_page, todo>>
       ELSE LET fs == extract_fields_with_positions(form)
                by == GroupByPage(fs, 1, EmptyMap)
            IN  /\ fields' = fs
                /\ fields_by_page' = by
                /\ todo' = Sorted(DOMAIN by)
                /\ pc' = "loop"
                /\ error' = error
    /\ UNCHANGED <<pa_file, ref_file, form, patient_info, page_no, page_part,
                   field_context_by_page, field_mapping, doc, written, out_buf,
                   failed, calls, transcript>>
    /\ UNCHANGED recoverer

\* line 154: the loop takes the next page that has fields, or ends
NextPage ==
    /\ pc = "loop"
    /\ IF todo # <<>>
       THEN page_no' = Head(todo) /\ todo' = Tail(todo) /\ pc' = "page_part"
       ELSE page_no' = page_no /\ todo' = todo /\ pc' = "fill"
    /\ UNCHANGED <<pa_file, ref_file, form, patient_info, fields, fields_by_page,
                   page_part, field_context_by_page, field_mapping, doc, written,
                   out_buf, error, failed, calls, transcript>>
    /\ UNCHANGED recoverer

\* the primary path without its except clause
MakePagePartPrimaryNoExcept ==
    /\ pc = "page_part"
    /\ \E raised \in BOOLEAN :
           IF raised
           THEN pc' = "crashed" /\ error' = "make_page_part" /\ page_part' = page_part
           ELSE pc' = "context" /\ error' = error /\ page_part' = "copy"
    /\ UNCHANGED <<pa_file, ref_file, form, patient_info, fields, fields_by_page,
                   todo, page_no, field_context_by_page, field_mapping, doc,
                   written, out_buf, failed, calls, transcript>>
    /\ UNCHANGED recoverer

\* lines 80-91: the page is copied, its widgets deleted, the copy saved; any
\* of these library calls may raise, and the except clause takes every
\* Exception to the fallback
MakePagePartPrimary ==
    /\ pc = "page_part"
    /\ \E raised \in BOOLEAN :
           IF raised
           THEN pc' = "fallback" /\ page_part' = page_part
           ELSE pc' = "context" /\ page_part' = "copy"
    /\ UNCHANGED <<pa_file, ref_file, form, patient_info, fields, fields_by_page,
                   todo, page_no, field_context_by_page, field_mapping, doc,
                   written, out_buf, error, failed, calls, transcript>>
    /\ UNCHANGED recoverer

\* lines 92-101: the page is rendered to a pixmap and put on a new page; these
\* library calls run inside the except clause, under no handler
MakePagePartFallback ==
    /\ pc = "fallback"
    /\ \E raised \in BOOLEAN :
           IF raised
           THEN pc' = "crashed" /\ error' = "make_page_part" /\ page_part' = page_part
           ELSE pc' = "context" /\ error' = error /\ page_part' = "image"
    /\ UNCHANGED <<pa_file, ref_file, form, patient_info, fields, fields_by_page,
                   todo, page_no, field_context_by_page, field_mapping, doc,
                   written, out_buf, failed, calls, transcript>>
    /\ UNCHANGED recoverer

\* the context step with its failure swallowed: the page goes on to its
\* mapping step with an empty context
ContextStepSwallowed ==
    /\ pc = "context"
    /\ \E resp \in OracleOutcomes(CtxResponses) :
         /\ transcript' = Append(transcript, Exchange(prompt_ctx, resp))
         /\ LET ctx == Decode(resp)
           IN  IF ctx.ok
               THEN /\ field_context_by_page' = Put(field_context_by_page, page_no, ctx.val)
                    /\ UNCHANGED <<error, failed>>
               ELSE /\ field_context_by_page' =
                           Put(field_context_by_page, page_no, JObj(EmptyMap))
                    /\ error' = "context"
                    /\ failed' = failed \cup {<<page_no, "context">>}
    /\ pc' = "mapping"
    /\ calls' = Append(calls, Call("context", page_no))
    /\ UNCHANGED <<pa_file, ref_file, form, patient_info, fields, fields_by_page,
                   todo, page_no, page_part, field_mapping, doc, written, out_buf>>
    /\ UNCHANGED recoverer

\* lines 156-192: the context call and its decoding, under no handler
ContextStep ==
    /\ pc = "context"
    /\ \E resp \in OracleOutcomes(CtxResponses) :
         /\ transcript' = Append(transcript, Exchange(prompt_ctx, resp))
         /\ LET ctx == Decode(resp)
           IN  IF ctx.ok
               THEN /\ field_context_by_page' = Put(field_context_by_page, page_no, ctx.val)
                    /\ pc' = "mapping"
                    /\ UNCHANGED <<error, failed>>
               ELSE /\ pc' = "crashed"
                    /\ error' = "context"
                    /\ failed' = failed \cup {<<page_no, "context">>}
                    /\ UNCHANGED field_context_by_page
    /\ calls' = Append(calls, Call("context", page_no))
    /\ UNCHANGED <<pa_file, ref_file, form, patient_info, fields, fields_by_page,
                   todo, page_no, page_part, field_mapping, doc, written, out_buf>>
    /\ UNCHANGED recoverer

\* lines 194-230: the mapping call and its decoding, under no handler, and the
\* merge into field_mapping
MappingStep ==
    /\ pc = "mapping"
    /\ \E resp \in OracleOutcomes(MapResponses) :
         /\ transcript' = Append(transcript, Exchange(prompt_map, resp))
         /\ LET mapping == Decode(resp)
           IN  IF mapping.ok
               THEN /\ field_mapping' = Update(field_mapping, mapping.val[2])
                    /\ pc' = "loop"
                    /\ UNCHANGED <<error, failed>>
               ELSE /\ pc' = "crashed"
                    /\ error' = "mapping"
                    /\ failed' = failed \cup {<<page_no, "mapping">>}
                    /\ UNCHANGED field_mapping
    /\ calls' = Append(calls, Call("mapping", page_no))
    /\ UNCHANGED <<pa_file, ref_file, form, patient_info, fields, fields_by_page,
                   todo, page_no, page_part, field_context_by_page, doc, written,
                   out_buf>>
    /\ UNCHANGED recoverer

\* the filler with field_mapping.get(fid) in place of the membership test
FillWidgetUnguarded(w, mapping) ==
    LET val == IF w.name \in DOMAIN mapping THEN mapping[w.name] ELSE JNull
    IN  IF w.type = "checkbox"
        THEN [w EXCEPT !.value = IF Truthy(val) THEN Yes ELSE Off]
        ELSE [w EXCEPT !.value = Str(val)]

\* the filler choosing its branch by the type of the value, not of the widget
FillWidgetByValueType(w, mapping) ==
    IF w.name \in DOMAIN mapping
    THEN LET val == mapping[w.name]
         IN  IF val[1] \in {"true", "false"}
             THEN [w EXCEPT !.value = IF Truthy(val) THEN Yes ELSE Off]
             ELSE [w EXCEPT !.value = Str(val)]
    ELSE w

\* lines 236-243 for one widget: its value after the filler has passed it
FillWidget(w, mapping) ==
    IF w.name \in DOMAIN mapping
    THEN LET val == mapping[w.name]
         IN  IF w.type = "checkbox"
             THEN [w EXCEPT !.value = IF Truthy(val) THEN Yes ELSE Off]
             ELSE [w EXCEPT !.value = Str(val)]
    ELSE w

\* line 237: the widgets the filler sets and updates
Touched(pages, mapping) ==
    UNION {{<<p, k>> : k \in {j \in 1..Len(pages[p]) : pages[p][j].name \in DOMAIN mapping}} :
               p \in 1..Len(pages)}

\* lines 232-245: every widget of every page is passed, and the document saved
Fill ==
    /\ pc = "fill"
    /\ doc' = [p \in 1..Len(form) |->
                  [k \in 1..Len(form[p]) |-> FillWidget(form[p][k], field_mapping)]]
    /\ written' = Touched(form, field_mapping)
    /\ out_buf' = doc'
    /\ pc' = "download"
    /\ UNCHANGED <<pa_file, ref_file, form, patient_info, fields, fields_by_page,
                   todo, page_no, page_part, field_context_by_page, field_mapping,
                   error, failed, calls, transcript>>
    /\ UNCHANGED recoverer

\* lines 247-253: the saved document is offered for download
Download ==
    /\ pc = "download"
    /\ pc' = "done"
    /\ UNCHANGED <<pa_file, ref_file, form, patient_info, fields, fields_by_page,
                   todo, page_no, page_part, field_context_by_page, field_mapping,
                   doc, written, out_buf, error, failed, calls, transcript>>
    /\ UNCHANGED recoverer

Next ==
    \/ Click
    \/ ExtractPatientInfo
    \/ ExtractFields
    \/ NextPage
    \/ MakePagePartPrimary
    \/ MakePagePartFallback
    \/ ContextStep
    \/ MappingStep
    \/ Fill
    \/ Download

Spec == Init /\ [][Next]_vars

----------------------------------------------------------------------------
(* The recoverer on its own: extract_json on a text, then json.loads on    *)
(* what it returned, as its three callers run them.                        *)

\* the longest text of the exhaustive part of the recoverer's inputs
MaxTextLen == 4

\* the longest string value of the objects built into the other inputs
MaxStringLen == 2

TextChars == {"{", "}", QUOTE, ":", ",", "a", NEWLINE}

StringChars == {"a", ",", "}", "]", " ", ":"}

\* {foo: 1, bar: "x",}
RepairExample ==
    <<"{", "f", "o", "o", ":", " ", "1", ",", " ", "b", "a", "r", ":", " ",
      QUOTE, "x", QUOTE, ",", "}">>

\* objects around a string value: on one line, over several lines with the
\* keys at line starts, and with the string inside an array
ObjectsAround(v) ==
    {Obj1(Member(<<"a">>, Q(v))),
     <<"{", "\n">> \o Member(<<"a">>, Q(v)) \o <<",", "\n">>
         \o Member(<<"b">>, <<"1">>) \o <<"\n", "}">>,
     Obj1(Member(<<"a">>, <<"[", "1", ",", " ">> \o Q(v) \o <<"]">>))}

BuiltObjects == UNION {ObjectsAround(v) : v \in SeqsUpTo(StringChars, MaxStringLen)}

\* prose around an object: it holds no brace
Before == {<<>>, <<"O", "K", ":", " ">>, <<"a", ":", "\n">>}
After == {<<>>, <<".">>, <<"\n", "o", "k", ",">>}

RecovererInit ==
    /\ WorkflowIdle
    /\ pa_file = "none" /\ ref_file = "none" /\ form = <<>>
    /\ rpc = "call"
    /\ recovered = None
    /\ loaded = None
    /\ \/ /\ input \in SeqsUpTo(TextChars, MaxTextLen) \cup {RepairExample}
          /\ embedded = <<>>
       \/ \E pre \in Before, obj \in BuiltObjects, post \in After :
              /\ input = pre \o obj \o post
              /\ embedded = obj

\* raw = extract_json(response)
Recover ==
    /\ rpc = "call"
    /\ recovered' = extract_json(input)
    /\ rpc' = IF recovered'.ok THEN "recovered" ELSE "raised"
    /\ UNCHANGED <<input, embedded, loaded>>
    /\ UNCHANGED workflow

\* json.loads(raw)
Load ==
    /\ rpc = "recovered"
    /\ loaded' = json_loads(recovered.val)
    /\ rpc' = "loaded"
    /\ UNCHANGED <<input, embedded, recovered>>
    /\ UNCHANGED workflow

RecovererNext == Recover \/ Load

RecovererSpec == RecovererInit /\ [][RecovererNext]_vars

----------------------------------------------------------------------------
(* The filler on its own: lines 232-245 run on a form and a field_mapping  *)
(* of any scalar values the oracle's JSON may hold.                        *)

\* the values an entry of field_mapping may have: strings (empty, "false",
\* a name), integers (zero and not), the booleans and null
MapValues ==
    {JStr(<<>>), JStr(LitFalse), JStr(Jane), JNum(<<"0">>), JNum(<<"1">>),
     JNum(<<"-", "7">>), JTrue, JFalse, JNull}

Mappings == UNION {[ks -> MapValues] : ks \in SUBSET {T1, CB1}}

\* the state at line 232 as far as the filler reads it
FillerInit ==
    /\ RecovererIdle
    /\ pc = "fill"
    /\ pa_file = "pdf" /\ ref_file = "pdf"
    /\ form \in Forms
    /\ field_mapping \in Mappings
    /\ patient_info = None
    /\ fields = extract_fields_with_positions(form)
    /\ fields_by_page = GroupByPage(fields, 1, EmptyMap)
    /\ todo = <<>>
    /\ page_no = 0
    /\ page_part = "none"
    /\ field_context_by_page = EmptyMap
    /\ doc = None
    /\ written = {}
    /\ out_buf = None
    /\ error = ""
    /\ failed = {}
    /\ calls = <<>>
    /\ transcript = <<>>

FillerNext == Fill \/ Download

FillerSpec == FillerInit /\ [][FillerNext]_vars

----------------------------------------------------------------------------
(* Properties of the workflow *)

Terminated == pc \in {"done", "stopped", "crashed"}

\* the widget positions of the form
Positions == UNION {{<<p, k>> : k \in 1..Len(form[p])} : p \in 1..Len(form)}

\* C1: when a page's context or mapping step fails, only that page is
\* skipped: the run still ends with every later page taken, the filler run
\* and the filled document produced.
C1_PageFailureSkipsOnlyThatPage ==
    (Terminated /\ failed # {}) =>
        /\ pc = "done"
        /\ out_buf # None
        /\ \A f \in failed : \A q \in DOMAIN fields_by_page :
               q > f[1] => \E i \in 1..Len(calls) : calls[i] = Call("context", q)

\* C2: once the patient-info extraction has failed the script has stopped,
\* and the only oracle call ever made is the patient-info call: no context or
\* mapping call, no field written, no document filled or saved.
C2_InfoFailureAbortsRun ==
    error = "patient_info" =>
        /\ pc = "stopped"
        /\ calls = <<Call("info", 0)>>
        /\ field_context_by_page = EmptyMap
        /\ field_mapping = EmptyMap
        /\ doc = None /\ written = {} /\ out_buf = None

C2_InfoFailed == error = "patient_info" /\ pc = "stopped" /\ Len(calls) = 1

\* C3: with an unreadable form or an unreadable referral the run is aborted
\* before any oracle call: no patient-info, context or mapping call is made.
C3_NoOracleCallOnUnreadableInput ==
    (pa_file = "garbage" \/ ref_file = "garbage") => calls = <<>>

\* C4 as claimed: no exception of make_page_part reaches its caller.
C4_NoExceptionReachesCaller == ~(pc = "crashed" /\ error = "make_page_part")

\* C4 as amended: an exception of the primary path never reaches the caller
\* but takes the fallback; make_page_part returns the copy when the primary
\* path completes and the image when the fallback completes, and the only
\* exception that reaches the caller is one the fallback itself raises.
C4_PrimaryFailureTakesFallback ==
    [][/\ pc = "page_part" =>
              \/ pc' = "context" /\ page_part' = "copy" /\ error' = error
              \/ pc' = "fallback" /\ error' = error
       /\ pc = "fallback" =>
              \/ pc' = "context" /\ page_part' = "image" /\ error' = error
              \/ pc' = "crashed" /\ error' = "make_page_part"
       /\ (pc' = "crashed" /\ error' = "make_page_part") => pc = "fallback"]_vars

C4_FallbackReturned == pc = "context" /\ page_part = "image"

\* C8: a widget whose field id is no key of field_mapping is neither set nor
\* updated by the filler, and has in the filled document the value it had in
\* the form.
C8_FillerLeavesUnmappedFields ==
    pc \in {"download", "done"} =>
        \A pos \in Positions :
            form[pos[1]][pos[2]].name \notin DOMAIN field_mapping =>
                /\ pos \notin written
                /\ doc[pos[1]][pos[2]] = form[pos[1]][pos[2]]
                /\ out_buf[pos[1]][pos[2]] = form[pos[1]][pos[2]]

C8_UnmappedBesideMapped ==
    /\ pc = "done"
    /\ \E pos \in Positions :
           /\ form[pos[1]][pos[2]].name \notin DOMAIN field_mapping
           /\ form[pos[1]][pos[2]].value \in {Old, Yes}
    /\ written # {}

\* C9: a mapped checkbox is written "Yes" for true and "Off" for false, a
\* mapped text field is written the very string it is mapped to, and the
\* branch is the widget's: a checkbox is written nothing but "Yes" or "Off".
C9_FillerWritesByWidgetType ==
    pc \in {"download", "done"} =>
        \A pos \in Positions :
            LET w   == form[pos[1]][pos[2]]
                now == doc[pos[1]][pos[2]].value
            IN  w.name \in DOMAIN field_mapping =>
                    LET val == field_mapping[w.name]
                    IN  /\ pos \in written
                        /\ (w.type = "checkbox" /\ val = JTrue) => now = Yes
                        /\ (w.type = "checkbox" /\ val = JFalse) => now = Off
                        /\ w.type = "checkbox" => now \in {Yes, Off}
                        /\ (w.type = "text" /\ val[1] = "str") => now = val[2]

C9_BothKindsWritten ==
    /\ pc = "done"
    /\ \E pos \in Positions :
           /\ form[pos[1]][pos[2]].type = "checkbox"
           /\ form[pos[1]][pos[2]].name \in DOMAIN field_mapping
           /\ field_mapping[form[pos[1]][pos[2]].name] = JTrue
           /\ form[pos[1]][pos[2]].value = Off
    /\ \E pos \in Positions :
           /\ form[pos[1]][pos[2]].type = "text"
           /\ form[pos[1]][pos[2]].name \in DOMAIN field_mapping
           /\ field_mapping[form[pos[1]][pos[2]].name] = JStr(Jane)

InventoryTaken == pc \notin {"idle", "patient_info", "fields", "stopped"} /\ error # "fitz.open"

\* the ids of the entries of page p of the partition
IdsOn(p) == {fields_by_page[p][k].id : k \in 1..Len(fields_by_page[p])}

\* the field names on the widgets of page p of the form
NamesOn(p) == {form[p][k].name : k \in 1..Len(form[p])}

\* C10 as claimed: no two entries of the inventory have the same id and
\* different pages, and the id sets of the pages are pairwise disjoint.
C10_IdsArePageDisjoint ==
    InventoryTaken =>
        /\ \A i, j \in 1..Len(fields) :
               fields[i].name = fields[j].name => fields[i].page = fields[j].page
        /\ \A p, q \in DOMAIN fields_by_page : p # q => IdsOn(p) \cap IdsOn(q) = {}

\* C10 as amended: every entry carries the page its widget sits on, so an id
\* is listed on a page exactly when the form has a widget of that name there:
\* two entries share an id across pages only when the form does, and the id
\* sets are pairwise disjoint whenever the form's names are.
C10_EntriesCarryTheirWidgetsPage ==
    InventoryTaken =>
        /\ \A i \in 1..Len(fields) :
               /\ fields[i].page \in 1..Len(form)
               /\ fields[i].name \in NamesOn(fields[i].page)
        /\ \A p \in 1..Len(form) : \A n \in NamesOn(p) :
               \E i \in 1..Len(fields) : fields[i].name = n /\ fields[i].page = p
        /\ DOMAIN fields_by_page = {p \in 1..Len(form) : form[p] # <<>>}
        /\ \A p \in DOMAIN fields_by_page : IdsOn(p) = NamesOn(p)
        /\ (\A p, q \in 1..Len(form) : p # q => NamesOn(p) \cap NamesOn(q) = {})
               => \A p, q \in DOMAIN fields_by_page :
                      p # q => IdsOn(p) \cap IdsOn(q) = {}

C10_SameIdOnTwoPages ==
    /\ InventoryTaken
    /\ \E i, j \in 1..Len(fields) :
           fields[i].name = fields[j].name /\ fields[i].page # fields[j].page

----------------------------------------------------------------------------
(* Properties of the recoverer *)

Has(t, c) == \E i \in 1..Len(t) : t[i] = c

\* C5: on a text with no "{" or no "}" extract_json raises its ValueError
\* ("No JSON object found") and returns no string.
C5_NoBraceRaises ==
    (rpc \notin {"off", "call"} /\ (~Has(input, "{") \/ ~Has(input, "}"))) =>
        /\ rpc = "raised"
        /\ recovered = Raise("ValueError")

C5_OneBraceOnly ==
    /\ rpc = "raised"
    /\ Has(input, "{") /\ ~Has(input, "}")

\* C6: on a text made of a strictly valid object and prose around it, the
\* recoverer followed by the strict parse gives the object that parsing the
\* embedded object gives.
C6_ValidObjectSurvives ==
    (rpc = "loaded" /\ embedded # <<>> /\ json_loads(embedded).ok) =>
        loaded = json_loads(embedded)

\* C7: on {foo: 1, bar: "x",} the recoverer's result parses to
\* {"foo": 1, "bar": "x"}.
C7_RepairExampleParses ==
    (rpc = "loaded" /\ input = RepairExample) =>
        loaded = Return(JObj(Put(Put(EmptyMap, <<"f", "o", "o">>, JNum(<<"1">>)),
                                 <<"b", "a", "r">>, JStr(<<"x">>))))

----------------------------------------------------------------------------
(* Properties of the value map and of the order of the stages *)

\* C11: every entry of field_mapping is typed by the kind of its field, a
\* string for a text field and a boolean for a checkbox, and is never null.
C11_MapEntriesTypedByKind ==
    \A pos \in Positions :
        LET w == form[pos[1]][pos[2]]
        IN  w.name \in DOMAIN field_mapping =>
                /\ field_mapping[w.name] # JNull
                /\ w.type = "text" => field_mapping[w.name][1] = "str"
                /\ w.type = "checkbox" => field_mapping[w.name] \in {JTrue, JFalse}

\* the outcomes of the calls of one kind for page p, oldest first: the
\* calls and the transcript run in step
OutcomesOf(kind, p) ==
    {transcript[i].outcome : i \in {j \in 1..Len(calls) : calls[j] = Call(kind, p)}}

\* text field T1 alone on page 1, checkbox CB1 alone on page 2, both blank
ScenarioForm == <<(<<TextWidget(T1, <<>>)>>), (<<CheckWidget(CB1, Off)>>)>>

\* the scenario has run to its end: the oracle gave the patient info of the
\* scenario and answered each page's mapping with that page's field only
C12_ScenarioRan ==
    /\ pc = "done"
    /\ form = ScenarioForm
    /\ OutcomesOf("info", 0) = {Return(InfoJane)}
    /\ OutcomesOf("mapping", 1) = {Return(Obj1(Member(T1, Q(Jane))))}
    /\ OutcomesOf("mapping", 2) = {Return(Obj1(Member(CB1, LitTrue)))}

\* C12: the scenario ends with field_mapping exactly {"T1": "Jane",
\* "CB1": true} and a saved document in which T1 is "Jane" and CB1 is checked.
C12_ScenarioFillsBothFields ==
    C12_ScenarioRan =>
        /\ field_mapping = Put(Put(EmptyMap, T1, JStr(Jane)), CB1, JTrue)
        /\ doc = <<(<<TextWidget(T1, Jane)>>), (<<CheckWidget(CB1, Yes)>>)>>
        /\ out_buf = doc

\* what decoding the answer of call i gave
Answer(i) == Decode(transcript[i].outcome)

\* C13: the patient-info call completes before any page's call; the pages'
\* calls come page by page in strictly ascending page order; on a page the
\* context call completes before the mapping call, whose prompt carries that
\* page's context result and the patient info; the filler starts only after
\* the last page's merge; the patient info is what step 1 produced ever after.
C13_StagesInOrder ==
    /\ Len(transcript) = Len(calls)
    /\ \A i \in 1..Len(calls) :
           /\ calls[i].kind = "info" <=> i = 1
           /\ calls[i].kind = "context" =>
                  /\ Answer(1).ok
                  /\ \/ i = 2
                     \/ /\ calls[i - 1].kind = "mapping"
                        /\ calls[i - 1].page < calls[i].page
                        /\ Answer(i - 1).ok
           /\ calls[i].kind = "mapping" =>
                  /\ calls[i - 1] = Call("context", calls[i].page)
                  /\ Answer(i - 1).ok
                  /\ transcript[i].prompt.page = calls[i].page
                  /\ transcript[i].prompt.context = Answer(i - 1).val
                  /\ transcript[i].prompt.patient_info = Answer(1).val
    /\ pc \in {"fill", "download", "done"} =>
           /\ \A p \in DOMAIN fields_by_page :
                  \E i \in 1..Len(calls) : calls[i] = Call("mapping", p) /\ Answer(i).ok
           /\ todo = <<>>
    /\ doc # None => pc \in {"download", "done"}
    /\ patient_info = IF calls # <<>> /\ Answer(1).ok THEN Answer(1).val ELSE None

C13_TwoPagesDone == pc = "done" /\ Len(calls) = 5 /\ written # {}

\* the indices of the mapping calls whose answer was decoded, and the partial
\* map each gave
Merged == {i \in 1..Len(calls) : calls[i].kind = "mapping" /\ Answer(i).ok}
Partial(i) == Answer(i).val[2]

\* the latest call was a mapping call and gave a partial map; that map
LastMerged == Len(calls) \in Merged
LastPartial == Partial(Len(calls))

\* C14: a page's merge leaves field_mapping overridden by the page's partial
\* map: the keys are those of both, every key of the partial map has the
\* partial map's value, every other entry is unchanged; and no step ever
\* removes a key.
C14_MergeIsRightBiasedUnion ==
    [][/\ DOMAIN field_mapping \subseteq DOMAIN field_mapping'
       /\ IF Len(calls') > Len(calls) /\ LastMerged'
          THEN LET partial == LastPartial'
               IN  /\ DOMAIN field_mapping' = DOMAIN field_mapping \cup DOMAIN partial
                   /\ \A k \in DOMAIN partial : field_mapping'[k] = partial[k]
                   /\ \A k \in DOMAIN field_mapping \ DOMAIN partial :
                          field_mapping'[k] = field_mapping[k]
          ELSE field_mapping' = field_mapping]_vars

\* page 2's answer names T1 again and its value has replaced page 1's
C14_LastWriteWon ==
    /\ pc = "done"
    /\ OutcomesOf("mapping", 1) = {Return(Obj1(Member(T1, Q(Jane))))}
    /\ OutcomesOf("mapping", 2) = {Return(Obj2(Member(T1, Q(Old)), Member(CB1, LitFalse)))}
    /\ field_mapping[T1] = JStr(Old)

\* C15 as claimed: the keys a page's merge writes were never in the map
\* before, so that no merge overwrites an entry of an earlier page.
C15_MergeNeverOverwrites ==
    [][(Len(calls') > Len(calls) /\ LastMerged') =>
           DOMAIN LastPartial' \cap DOMAIN field_mapping = {}]_vars

\* C15 as amended: the keys of field_mapping are the keys the pages' partial
\* maps named, and each entry is the value given by the last page whose
\* partial map names its key: an entry of an earlier page is overwritten
\* exactly when a later page's partial map names the same key.
C15_LastPageNamingAKeyWins ==
    /\ DOMAIN field_mapping = UNION {DOMAIN Partial(i) : i \in Merged}
    /\ \A k \in DOMAIN field_mapping :
           \E i \in Merged :
               /\ k \in DOMAIN Partial(i)
               /\ field_mapping[k] = Partial(i)[k]
               /\ \A j \in Merged : j > i => k \notin DOMAIN Partial(j)

\* two pages' partial maps name CB1, with different values
C15_KeyNamedTwice ==
    /\ pc = "fill"
    /\ \E i, j \in Merged :
           /\ i < j
           /\ CB1 \in DOMAIN Partial(i) \cap DOMAIN Partial(j)
           /\ Partial(i)[CB1] # Partial(j)[CB1]

\* C16: every key a page's merge adds is the id of a field of that page that
\* the page's context answer annotated; a field the context answer left out
\* gets no entry from the page's merge.
C16_MergedKeysWereAnnotated ==
    \A i \in Merged :
        \A k \in DOMAIN Partial(i) :
            /\ k \in IdsOn(calls[i].page)
            /\ k \in DOMAIN Answer(i - 1).val[2]

\* C18: a page's failing context or mapping step leaves field_mapping as it
\* was when the page started, which is the merge of the earlier pages'
\* partial maps; and after a failing context step no mapping call is made for
\* that page.
C18_FailingPageMergesNothing ==
    [][/\ pc \in {"page_part", "fallback", "context"} => field_mapping' = field_mapping
       /\ failed' # failed =>
              /\ pc \in {"context", "mapping"}
              /\ failed' = failed \cup {<<page_no, pc>>}
              /\ field_mapping' = field_mapping
              /\ DOMAIN field_mapping' = UNION {DOMAIN Partial(i) : i \in Merged}
              /\ \A i \in Merged : calls[i].page < page_no
       /\ \A f \in failed' :
              f[2] = "context" =>
                  \A i \in 1..Len(calls') : calls'[i] # Call("mapping", f[1])]_vars

\* page 2's context step failed after page 1's merge
C18_SecondPageFailed ==
    /\ <<2, "context">> \in failed
    /\ field_mapping # EmptyMap
    /\ calls[Len(calls)] = Call("context", 2)

\* the pages of the form that hold a fillable field
PagesWithFields == {p \in 1..Len(form) : form[p] # <<>>}

\* C19: a run in which no step fails makes 1 + 2k oracle calls, k the number
\* of pages with a fillable field: the patient-info call, then a context and
\* a mapping call for each such page.  A page without fields is neither
\* isolated nor the subject of a call, and a form without fields gives an
\* empty inventory, an empty field_mapping and an output with no field
\* written, and no error.
C19_CallsPerPageWithFields ==
    /\ pc = "done" =>
           /\ Len(calls) = 1 + 2 * Cardinality(PagesWithFields)
           /\ calls[1] = Call("info", 0)
           /\ \A p \in PagesWithFields :
                  /\ Cardinality({i \in 1..Len(calls) : calls[i] = Call("context", p)}) = 1
                  /\ Cardinality({i \in 1..Len(calls) : calls[i] = Call("mapping", p)}) = 1
    /\ \A i \in 1..Len(calls) :
           calls[i].kind # "info" => calls[i].page \in PagesWithFields
    /\ pc \in {"page_part", "fallback", "context", "mapping"} =>
           page_no \in PagesWithFields
    /\ (InventoryTaken /\ PagesWithFields = {}) =>
           /\ fields = <<>> /\ fields_by_page = EmptyMap
           /\ pc \in {"loop", "fill", "download", "done"} /\ error = ""
           /\ Len(calls) = 1
           /\ field_mapping = EmptyMap
           /\ written = {}
           /\ pc \in {"download", "done"} => doc = form /\ out_buf = form

\* a run to the end on a form with a page that has fields and one that has
\* none
C19_MixedFormDone ==
    /\ pc = "done"
    /\ PagesWithFields # {}
    /\ \E p \in 1..Len(form) : form[p] = <<>>

----------------------------------------------------------------------------
(* Further properties of the recoverer *)

\* the places of the first "{" and of the last "}" of the input, from 1
FirstOpen == CHOOSE i \in 1..Len(input) :
                 input[i] = "{" /\ \A j \in 1..(i - 1) : input[j] # "{"
LastClose == CHOOSE i \in 1..Len(input) :
                 input[i] = "}" /\ \A j \in (i + 1)..Len(input) : input[j] # "}"

\* extract_json has run on a text that holds both braces
BothBraces == rpc \notin {"off", "call"} /\ Has(input, "{") /\ Has(input, "}")

\* C17 as claimed: on a text with a "{" and a "}" extract_json does not fail
\* and its result begins with "{" and ends with "}", in whatever order the
\* two stand in the text.
C17_ResultIsBraced ==
    BothBraces =>
        /\ recovered.ok
        /\ recovered.val # <<>>
        /\ recovered.val[1] = "{"
        /\ recovered.val[Len(recovered.val)] = "}"

\* C17 as amended: on a text with a "{" and a "}" extract_json does not fail;
\* when the first "{" stands before the last "}" its result begins with "{"
\* and ends with "}", and is the very substring from the one through the other
\* when that holds nothing to repair (no ":" and no ","); when the last "}"
\* stands before the first "{" its result is the empty string.
C17_BracedWhenInOrder ==
    BothBraces =>
        /\ recovered.ok
        /\ IF FirstOpen < LastClose
           THEN /\ recovered.val[1] = "{"
                /\ recovered.val[Len(recovered.val)] = "}"
                /\ (\A i \in FirstOpen..LastClose : input[i] \notin {":", ","}) =>
                       /\ Len(recovered.val) = LastClose - FirstOpen + 1
                       /\ \A k \in 1..Len(recovered.val) :
                              recovered.val[k] = input[FirstOpen + k - 1]
           ELSE recovered.val = <<>>

\* an object cut out of the prose before and after it
C17_ProseCutAway ==
    /\ BothBraces
    /\ 1 < FirstOpen /\ FirstOpen < LastClose /\ LastClose < Len(input)
    /\ recovered.ok

----------------------------------------------------------------------------
(* Properties of the filler on values of any type *)

\* the value the filler left on the widget at pos
Filled(pos) == doc[pos[1]][pos[2]].value

\* C20: a checkbox mapped to a value that is no boolean is written "Yes" when
\* the value is truthy and "Off" otherwise: a non-empty string, the string
\* "false" included, and a non-zero number give "Yes"; null, the empty string
\* and 0 give "Off".  A text field mapped to a value that is no string is
\* written the value's string form: null gives "None".
C20_FillerOnOtherTypes ==
    pc \in {"download", "done"} =>
        \A pos \in Positions :
            LET w == form[pos[1]][pos[2]]
            IN  w.name \in DOMAIN field_mapping =>
                    LET val == field_mapping[w.name]
                    IN  /\ (w.type = "checkbox" /\ val[1] = "str") =>
                               Filled(pos) = IF val[2] = <<>> THEN Off ELSE Yes
                        /\ (w.type = "checkbox" /\ val = JStr(LitFalse)) =>
                               Filled(pos) = Yes
                        /\ (w.type = "checkbox" /\ val[1] = "num") =>
                               Filled(pos) = IF val[2] = <<"0">> THEN Off ELSE Yes
                        /\ (w.type = "checkbox" /\ val = JNull) => Filled(pos) = Off
                        /\ (w.type = "text" /\ val = JNull) =>
                               Filled(pos) = <<"N", "o", "n", "e">>
                        /\ (w.type = "text" /\ val = JTrue) =>
                               Filled(pos) = <<"T", "r", "u", "e">>
                        /\ (w.type = "text" /\ val = JFalse) =>
                               Filled(pos) = <<"F", "a", "l", "s", "e">>
                        /\ (w.type = "text" /\ val[1] = "num") => Filled(pos) = val[2]

\* a checkbox mapped to the string "false" and a text field mapped to null
\* have been filled
C20_FalseStringAndNull ==
    /\ pc = "done"
    /\ T1 \in DOMAIN field_mapping /\ CB1 \in DOMAIN field_mapping
    /\ field_mapping[CB1] = JStr(LitFalse)
    /\ field_mapping[T1] = JNull
    /\ \E pos \in Positions : form[pos[1]][pos[2]].name = CB1 /\ Filled(pos) = Yes
    /\ \E pos \in Positions : form[pos[1]][pos[2]].name = T1

====
